---------------------------- MODULE Spec2Model ----------------------------
(***************************************************************************)
(* Model of src/public/backend.py: the users table of a PostgreSQL         *)
(* database, the Flask session's flash messages, and the two request       *)
(* handlers login() and admin(), one action per statement group.           *)
(*                                                                         *)
(* A request occupies a slot r.  pc[r] is the handler's position, rq[r]    *)
(* the request line (route, method, session), lv[r] the handler's local    *)
(* variables and resp[r] the response it returned.  The fields of the      *)
(* request body are drawn where the handler reads them.                    *)
(***************************************************************************)
EXTENDS Integers, Sequences, FiniteSets, TLC

VARIABLES
    workload,   \* "sequential": one request at a time; "concurrent": two
    users,      \* committed rows of table users, in insertion order
    seq,        \* next value of the SERIAL sequence users_id_seq
    txrow,      \* txrow[r]: the row inserted by r's open transaction, if any
    conns,      \* number of open database connections
    flashes,    \* flashes[s]: session s's pending flash messages
    pc, rq, lv, resp,
    created     \* history: the (email, name, password) of every committed creation

vars == <<workload, users, seq, txrow, conns, flashes, pc, rq, lv, resp,
          created>>

-----------------------------------------------------------------------------
(* Bounds *)

\* The sequence users_id_seq is not advanced past this value.
MaxSeq == 2
\* No admin POST is started for a session that already holds this many messages.
MaxFlash == 1
\* The server's max_connections: connect fails when this many are open.
MaxConnections == 2

\* email VARCHAR(120), name VARCHAR(100)
EmailMax == 120
NameMax == 100

ADMIN_PASSWORD == "admin123"

\* An absent value (Python None, SQL NULL, a missing field) is <<>>, a present
\* one <<v>>.
None == <<>>
Some(v) == <<v>>
Opt(S) == {None} \cup {Some(v) : v \in S}

LongEmail ==
    "aaaaaaaaaaaaaaaaaaaaaaaaaaaaaaaaaaaaaaaaaaaaaaaaaaaaaaaaaaaa@aaaaaaaaaaaaaaaaaaaaaaaaaaaaaaaaaaaaaaaaaaaaaaaaaaaaaaaaaaaaaaaa.com"

AllSlots == {1, 2}
Slots == IF workload = "sequential" THEN {1} ELSE AllSlots
AllSessions == {1, 2}
\* The browser sessions of the clients: one client in the sequential
\* workload, one client per slot in the concurrent one.
Sessions(r) == IF workload = "sequential" THEN {1} ELSE {r}
Names == {"Ana"}
Emails == IF workload = "sequential" THEN {"", "ana@x.com", LongEmail}
                                      ELSE {"ana@x.com", LongEmail}
Passwords == IF workload = "sequential" THEN {"", "secret1", "wrong"}
                                         ELSE {"secret1"}
LoginPasswords == Passwords \cup {"wrong"}
Salts == IF workload = "sequential" THEN {"s1", "s2"} ELSE {"s1"}
SecretInputs == {None, Some(ADMIN_PASSWORD), Some("bad")}

-----------------------------------------------------------------------------
(* werkzeug.security *)

\* The digest is a symbolic one-way term: equal only for equal salt and password.
Digest(salt, password) == <<"H", salt, password>>

\* As if an empty password were stored unhashed.
HashUnlessEmpty(password, salt) ==
    IF password = "" THEN <<>> ELSE <<"scrypt", salt, Digest(salt, password)>>

GeneratePasswordHash(password, salt) ==
    <<"scrypt", salt, Digest(salt, password)>>

\* As if the salt stored in the hash were ignored.
CheckPasswordHashFixedSalt(pwhash, password) ==
    /\ Len(pwhash) = 3
    /\ pwhash[3] = Digest("s1", password)

CheckPasswordHash(pwhash, password) ==
    /\ Len(pwhash) = 3
    /\ pwhash[3] = Digest(pwhash[2], password)

-----------------------------------------------------------------------------
(* The database *)

\* get_db_connection: psycopg2.connect returns a connection (TRUE), or raises
\* OperationalError and None is returned (FALSE): the server is unreachable,
\* or it has no connection left.
GetDbConnection == IF conns < MaxConnections THEN {TRUE, FALSE} ELSE {FALSE}

StoredEmails == {users[i].email : i \in 1..Len(users)}

\* SELECT * FROM users WHERE email = %s; fetchone()
FindByEmail(email) ==
    IF \E i \in 1..Len(users) : users[i].email = email
    THEN Some(users[CHOOSE i \in 1..Len(users) : users[i].email = email])
    ELSE None

\* As if the email column had no UNIQUE constraint.
NoUniqueIndex(email) == FALSE

\* The UNIQUE index on email finds a committed row with this email.
UniqueViolation(email) == email \in StoredEmails

\* As if the INSERT did not wait for an open transaction's row.
NeverBlocked(r, email) == FALSE

\* The UNIQUE index on email finds a row of another open transaction: the
\* INSERT waits for that transaction to end.
InsertBlocked(r, email) ==
    \E o \in AllSlots \ {r} : txrow[o] # None /\ txrow[o][1].email = email

\* A value too long for its column: psycopg2.DataError
TooLong(name, email) == Len(name) > NameMax \/ Len(email) > EmailMax

\* The row an INSERT builds: id from the sequence, photo NULL, created_at
\* CURRENT_TIMESTAMP (a logical time: it grows with the sequence).
NewRow(id, name, email, password_hash) ==
    [id |-> id, email |-> email, password_hash |-> password_hash,
     name |-> name, photo |-> None, created_at |-> id]

\* As if the INSERT replaced the rows of the same name.
CommitReplacingName(rows, tx) ==
    IF tx = None THEN rows
    ELSE SelectSeq(rows, LAMBDA u : u.name # tx[1].name) \o <<tx[1]>>

\* conn.commit(): the transaction's row becomes visible
CommitRows(rows, tx) == IF tx = None THEN rows ELSE Append(rows, tx[1])

\* SELECT name, email FROM users ORDER BY created_at DESC
RECURSIVE ListFrom(_, _)
ListFrom(rows, n) ==
    IF n = 0 THEN <<>>
    ELSE LET later == {i \in 1..Len(rows) : \A j \in 1..Len(rows) :
                          rows[j].created_at <= rows[i].created_at}
             i == CHOOSE i \in later : TRUE
             rest == [k \in 1..(Len(rows) - 1) |->
                         IF k < i THEN rows[k] ELSE rows[k + 1]]
         IN <<[name |-> rows[i].name, email |-> rows[i].email]>>
            \o ListFrom(rest, n - 1)

ListUsers == ListFrom(users, Len(users))

-----------------------------------------------------------------------------
(* Flask: flash messages and responses *)

Message(category, text, email) ==
    [category |-> category, text |-> text, email |-> email]

\* flash(message, category): append to the session's pending messages
Flash(s, m) == [flashes EXCEPT ![s] = Append(@, m)]

\* get_flashed_messages(with_categories=true): the session's pending messages
FlashedMessages(s) == flashes[s]

\* As if reading the messages left them in the session.
KeepFlashed(s) == flashes

\* ... which are removed from the session by that call
AfterFlashed(s) == [flashes EXCEPT ![s] = <<>>]

NoResp == [status |-> 0, kind |-> "none", success |-> FALSE, error |-> "",
           user |-> None, messages |-> <<>>, users |-> <<>>]

JsonError(status, error) ==
    [NoResp EXCEPT !.status = status, !.kind = "json", !.error = error]

JsonUser(user) ==
    [NoResp EXCEPT !.status = 200, !.kind = "json", !.success = TRUE,
        !.user = Some([name |-> user.name, email |-> user.email,
                       photo |-> IF user.photo = None THEN "" ELSE user.photo[1]])]

Text(status, error) ==
    [NoResp EXCEPT !.status = status, !.kind = "text", !.error = error]

Redirect == [NoResp EXCEPT !.status = 302, !.kind = "redirect"]

Page(messages, list) ==
    [NoResp EXCEPT !.status = 200, !.kind = "html", !.messages = messages,
                   !.users = list]

NoLocals ==
    [conn |-> FALSE,        \* holds a connection it has not closed
     data |-> None,         \* login: the JSON body
     auth |-> None,         \* admin: the submitted admin_password
     name |-> "", email |-> "", password |-> "", password_hash |-> <<>>,
     user |-> None,         \* login: the row fetched
     listed |-> <<>>,       \* admin: the rows fetched for the page
     connects |-> 0,        \* history: calls of get_db_connection
     stmts |-> 0,           \* history: SQL statements executed
     fresh |-> FALSE,       \* history: the email was unused when the form was read
     found |-> FALSE,       \* history: login: the SELECT returned a row
     known |-> None,        \* history: login: the creation matching the credentials
     outcome |-> "none"]    \* history: admin: success, duplicate, other

\* The handler returns: its frame is gone.  What stays is what the request
\* was (data, auth, email), whether its connection was left open, and history.
Return(l) ==
    [l EXCEPT !.password = "", !.password_hash = <<>>, !.user = None,
              !.listed = <<>>]

Holding(r) == pc[r] \notin {"idle", "done"} /\ lv[r].conn

-----------------------------------------------------------------------------
Init ==
    /\ workload = "sequential"
    /\ users = <<>>
    /\ seq = 1
    /\ txrow = [r \in AllSlots |-> None]
    /\ conns = 0
    /\ flashes = [s \in AllSessions |-> <<>>]
    /\ pc = [r \in AllSlots |-> "idle"]
    /\ rq = [r \in AllSlots |-> [route |-> "", method |-> "", session |-> 0]]
    /\ lv = [r \in AllSlots |-> NoLocals]
    /\ resp = [r \in AllSlots |-> NoResp]
    /\ created = {}

InitConcurrent ==
    /\ workload = "concurrent"
    /\ users = <<>>
    /\ seq = 1
    /\ txrow = [r \in AllSlots |-> None]
    /\ conns = 0
    /\ flashes = [s \in AllSessions |-> <<>>]
    /\ pc = [r \in AllSlots |-> "idle"]
    /\ rq = [r \in AllSlots |-> [route |-> "", method |-> "", session |-> 0]]
    /\ lv = [r \in AllSlots |-> NoLocals]
    /\ resp = [r \in AllSlots |-> NoResp]
    /\ created = {}

\* The requests a client may send.  login() never reads the session.
Requests(r) ==
    {[route |-> "login", method |-> "POST", session |-> 0]}
    \cup {[route |-> "admin", method |-> m, session |-> s] :
              m \in {"GET", "POST"}, s \in Sessions(r)}

\* A request arrives and is routed to its handler.
StartRequest(r) ==
    /\ pc[r] \in {"idle", "done"}
    /\ \E q \in Requests(r) :
          /\ (q.route = "admin" /\ q.method = "POST") =>
                (Len(flashes[q.session]) < MaxFlash /\ seq <= MaxSeq)
          /\ rq' = [rq EXCEPT ![r] = q]
          /\ pc' = [pc EXCEPT ![r] = IF q.route = "login" THEN "l_validate"
                                                          ELSE "a_connect"]
    /\ lv' = [lv EXCEPT ![r] = NoLocals]
    /\ resp' = [resp EXCEPT ![r] = NoResp]
    /\ UNCHANGED <<workload, users, seq, txrow, conns, flashes, created>>

-----------------------------------------------------------------------------
(* login() *)

JsonBodies ==
    {None} \cup {Some([email |-> e, password |-> p]) :
                    e \in Opt(Emails), p \in Opt(LoginPasswords)}

\* As if only the presence of the keys were tested.
MissingKeys(data) ==
    \/ data = None
    \/ data[1].email = None
    \/ data[1].password = None

\* not data or not data.get('email') or not data.get('password')
MissingCredentials(data) ==
    \/ data = None
    \/ data[1].email \in {None, Some("")}
    \/ data[1].password \in {None, Some("")}

\* The creation, if any, that committed the body's email with its password.
KnownAs(data) ==
    IF /\ data # None
       /\ data[1].email # None
       /\ data[1].password # None
       /\ \E c \in created : /\ c.email = data[1].email[1]
                              /\ c.password = data[1].password[1]
    THEN Some(CHOOSE c \in created : /\ c.email = data[1].email[1]
                                     /\ c.password = data[1].password[1])
    ELSE None

LoginValidate(r) ==
    /\ pc[r] = "l_validate"
    /\ \E data \in JsonBodies :
          IF MissingCredentials(data)
          THEN /\ lv' = [lv EXCEPT ![r] =
                            Return([@ EXCEPT !.data = data, !.known = KnownAs(data)])]
               /\ resp' = [resp EXCEPT ![r] =
                              JsonError(400, "Email e senha sao obrigatorios.")]
               /\ pc' = [pc EXCEPT ![r] = "done"]
          ELSE /\ lv' = [lv EXCEPT ![r].data = data,
                                   ![r].email = data[1].email[1],
                                   ![r].password = data[1].password[1],
                                   ![r].known = KnownAs(data)]
               /\ pc' = [pc EXCEPT ![r] = "l_connect"]
               /\ UNCHANGED resp
    /\ UNCHANGED <<workload, users, seq, txrow, conns, flashes, rq, created>>

LoginConnect(r) ==
    /\ pc[r] = "l_connect"
    /\ \E conn \in GetDbConnection :
       IF conn
       THEN /\ conns' = conns + 1
            /\ lv' = [lv EXCEPT ![r].conn = TRUE, ![r].connects = @ + 1]
            /\ pc' = [pc EXCEPT ![r] = "l_select"]
            /\ UNCHANGED resp
       ELSE /\ lv' = [lv EXCEPT ![r] = Return([@ EXCEPT !.connects = @ + 1])]
            /\ resp' = [resp EXCEPT ![r] =
                           JsonError(500, "Erro de conexao com a base de dados.")]
            /\ pc' = [pc EXCEPT ![r] = "done"]
            /\ UNCHANGED conns
    /\ UNCHANGED <<workload, users, seq, txrow, flashes, rq, created>>

\* with conn.cursor(...) as cur: execute, fetchone; then conn.close()
LoginSelect(r) ==
    /\ pc[r] = "l_select"
    /\ conns' = conns - 1
    /\ lv' = [lv EXCEPT ![r].user = FindByEmail(lv[r].email), ![r].stmts = @ + 1,
                        ![r].found = FindByEmail(lv[r].email) # None,
                        ![r].conn = FALSE]
    /\ pc' = [pc EXCEPT ![r] = "l_check"]
    /\ UNCHANGED <<workload, users, seq, txrow, flashes, rq, resp, created>>

\* As if an unknown email had an answer of its own.
LoginResultNotFound(user, password) ==
    IF user = None THEN JsonError(404, "Utilizador nao encontrado.")
    ELSE IF CheckPasswordHash(user[1].password_hash, password)
    THEN JsonUser(user[1])
    ELSE JsonError(401, "Credenciais invalidas.")

\* if user and check_password_hash(user['password_hash'], data['password'])
LoginResult(user, password) ==
    IF user # None /\ CheckPasswordHash(user[1].password_hash, password)
    THEN JsonUser(user[1])
    ELSE JsonError(401, "Credenciais invalidas.")

LoginCheck(r) ==
    /\ pc[r] = "l_check"
    /\ resp' = [resp EXCEPT ![r] = LoginResult(lv[r].user, lv[r].password)]
    /\ lv' = [lv EXCEPT ![r] = Return(@)]
    /\ pc' = [pc EXCEPT ![r] = "done"]
    /\ UNCHANGED <<workload, users, seq, txrow, conns, flashes, rq, created>>

-----------------------------------------------------------------------------
(* admin() *)

AdminConnect(r) ==
    /\ pc[r] = "a_connect"
    /\ \E conn \in GetDbConnection :
       IF conn
       THEN /\ conns' = conns + 1
            /\ lv' = [lv EXCEPT ![r].conn = TRUE, ![r].connects = @ + 1]
            /\ pc' = [pc EXCEPT ![r] = IF rq[r].method = "POST" THEN "a_auth"
                                                                ELSE "a_list"]
            /\ UNCHANGED resp
       ELSE /\ lv' = [lv EXCEPT ![r] = Return([@ EXCEPT !.connects = @ + 1])]
            /\ resp' = [resp EXCEPT ![r] =
                           Text(500, "Erro de conexao com a base de dados.")]
            /\ pc' = [pc EXCEPT ![r] = "done"]
            /\ UNCHANGED conns
    /\ UNCHANGED <<workload, users, seq, txrow, flashes, rq, created>>

\* As if an absent admin_password passed the check.
SecretOkOrAbsent(auth) == auth = None \/ auth = Some(ADMIN_PASSWORD)

\* request.form.get('admin_password') != ADMIN_PASSWORD is false
SecretOk(auth) == auth = Some(ADMIN_PASSWORD)

\* The secret check.  On a mismatch the handler returns the redirect with its
\* connection still open.
AdminAuth(r) ==
    /\ pc[r] = "a_auth"
    /\ \E auth \in SecretInputs :
          IF SecretOk(auth)
          THEN /\ lv' = [lv EXCEPT ![r].auth = auth]
               /\ pc' = [pc EXCEPT ![r] = "a_form"]
               /\ UNCHANGED <<flashes, resp>>
          ELSE /\ lv' = [lv EXCEPT ![r] = Return([@ EXCEPT !.auth = auth])]
               /\ flashes' = Flash(rq[r].session,
                                   Message("error", "Senha de admin incorreta!", ""))
               /\ resp' = [resp EXCEPT ![r] = Redirect]
               /\ pc' = [pc EXCEPT ![r] = "done"]
    /\ UNCHANGED <<workload, users, seq, txrow, conns, rq, created>>

\* request.form['name'], ['email'], ['password']: a missing field raises
\* BadRequestKeyError (HTTP 400) and the handler is left with its connection
\* still open.  Then generate_password_hash with a fresh salt.
AdminForm(r) ==
    /\ pc[r] = "a_form"
    /\ \E name \in Opt(Names), email \in Opt(Emails), password \in Opt(Passwords),
          salt \in Salts :
          IF name = None \/ email = None \/ password = None
          THEN /\ resp' = [resp EXCEPT ![r] = Text(400, "BadRequestKeyError")]
               /\ pc' = [pc EXCEPT ![r] = "done"]
               /\ lv' = [lv EXCEPT ![r] = Return(@)]
          ELSE /\ lv' = [lv EXCEPT ![r].name = name[1],
                                   ![r].email = email[1],
                                   ![r].password = password[1],
                                   ![r].password_hash =
                                       GeneratePasswordHash(password[1], salt),
                                   ![r].fresh = ~UniqueViolation(email[1])]
               /\ pc' = [pc EXCEPT ![r] = "a_insert"]
               /\ UNCHANGED resp
    /\ UNCHANGED <<workload, users, seq, txrow, conns, flashes, rq, created>>

\* cur.execute("INSERT INTO users ..."): DataError for a value too long (the
\* sequence may or may not have been advanced), IntegrityError for a stored
\* email (the sequence has been advanced), else the row is in the transaction.
AdminInsert(r) ==
    /\ pc[r] = "a_insert"
    /\ ~InsertBlocked(r, lv[r].email)
    /\ lv' = [lv EXCEPT ![r].stmts = @ + 1]
    /\ IF TooLong(lv[r].name, lv[r].email)
       THEN /\ seq' \in {seq, seq + 1}
            /\ pc' = [pc EXCEPT ![r] = "a_exception"]
            /\ UNCHANGED txrow
       ELSE IF UniqueViolation(lv[r].email)
       THEN /\ seq' = seq + 1
            /\ pc' = [pc EXCEPT ![r] = "a_integrity"]
            /\ UNCHANGED txrow
       ELSE /\ seq' = seq + 1
            /\ txrow' = [txrow EXCEPT ![r] =
                    Some(NewRow(seq, lv[r].name, lv[r].email, lv[r].password_hash))]
            /\ pc' = [pc EXCEPT ![r] = "a_commit"]
    /\ UNCHANGED <<workload, users, conns, flashes, rq, resp, created>>

\* conn.commit(); flash(..., 'success')
AdminCommit(r) ==
    /\ pc[r] = "a_commit"
    /\ users' = CommitRows(users, txrow[r])
    /\ txrow' = [txrow EXCEPT ![r] = None]
    /\ flashes' = Flash(rq[r].session, Message("success", "criado com sucesso", lv[r].email))
    /\ created' = created \cup {[email |-> lv[r].email, name |-> lv[r].name,
                                  password |-> lv[r].password]}
    /\ lv' = [lv EXCEPT ![r].outcome = "success"]
    /\ pc' = [pc EXCEPT ![r] = "a_list"]
    /\ UNCHANGED <<workload, seq, conns, rq, resp>>

\* except psycopg2.IntegrityError: conn.rollback(); flash(..., 'error')
AdminIntegrity(r) ==
    /\ pc[r] = "a_integrity"
    /\ txrow' = [txrow EXCEPT ![r] = None]
    /\ flashes' = Flash(rq[r].session, Message("error", "ja existe", lv[r].email))
    /\ lv' = [lv EXCEPT ![r].outcome = "duplicate"]
    /\ pc' = [pc EXCEPT ![r] = "a_list"]
    /\ UNCHANGED <<workload, users, seq, conns, rq, resp, created>>

\* except Exception as e: conn.rollback(); flash(..., 'error')
AdminException(r) ==
    /\ pc[r] = "a_exception"
    /\ txrow' = [txrow EXCEPT ![r] = None]
    /\ flashes' = Flash(rq[r].session, Message("error", "Ocorreu um erro", lv[r].email))
    /\ lv' = [lv EXCEPT ![r].outcome = "other"]
    /\ pc' = [pc EXCEPT ![r] = "a_list"]
    /\ UNCHANGED <<workload, users, seq, conns, rq, resp, created>>

\* with conn.cursor(...) as cur: execute, fetchall; then conn.close()
AdminList(r) ==
    /\ pc[r] = "a_list"
    /\ conns' = conns - 1
    /\ lv' = [lv EXCEPT ![r].listed = ListUsers, ![r].stmts = @ + 1,
                        ![r].conn = FALSE]
    /\ pc' = [pc EXCEPT ![r] = "a_render"]
    /\ UNCHANGED <<workload, users, seq, txrow, flashes, rq, resp, created>>

\* render_template_string: the template reads and clears the session's messages
AdminRender(r) ==
    /\ pc[r] = "a_render"
    /\ resp' = [resp EXCEPT ![r] = Page(FlashedMessages(rq[r].session), lv[r].listed)]
    /\ flashes' = AfterFlashed(rq[r].session)
    /\ lv' = [lv EXCEPT ![r] = Return(@)]
    /\ pc' = [pc EXCEPT ![r] = "done"]
    /\ UNCHANGED <<workload, users, seq, txrow, conns, rq, created>>

-----------------------------------------------------------------------------
(* The environment *)

\* A connection no handler holds any more is closed when the runtime
\* finalizes the object, at some later time or never.
Finalize ==
    /\ conns > Cardinality({r \in AllSlots : Holding(r)})
    /\ conns' = conns - 1
    /\ UNCHANGED <<workload, users, seq, txrow, flashes, pc, rq, lv, resp, created>>

Next ==
    \/ \E r \in Slots : StartRequest(r)
    \/ \E r \in Slots : LoginValidate(r)
    \/ \E r \in Slots : LoginConnect(r)
    \/ \E r \in Slots : LoginSelect(r)
    \/ \E r \in Slots : LoginCheck(r)
    \/ \E r \in Slots : AdminConnect(r)
    \/ \E r \in Slots : AdminAuth(r)
    \/ \E r \in Slots : AdminForm(r)
    \/ \E r \in Slots : AdminInsert(r)
    \/ \E r \in Slots : AdminCommit(r)
    \/ \E r \in Slots : AdminIntegrity(r)
    \/ \E r \in Slots : AdminException(r)
    \/ \E r \in Slots : AdminList(r)
    \/ \E r \in Slots : AdminRender(r)
    \/ Finalize

Spec == Init /\ [][Next]_vars

SpecConcurrent == InitConcurrent /\ [][Next]_vars

-----------------------------------------------------------------------------
(* Properties *)

IsLogin(r) == rq[r].route = "login"
IsAdminPost(r) == rq[r].route = "admin" /\ rq[r].method = "POST"
Acts(r) == pc'[r] # pc[r]

SuccessMessage(email) == Message("success", "criado com sucesso", email)
ExistsMessage(email) == Message("error", "ja existe", email)
WrongSecretMessage == Message("error", "Senha de admin incorreta!", "")
Shows(r, m) == \E i \in 1..Len(resp[r].messages) : resp[r].messages[i] = m

Profile(c) == Some([name |-> c.name, email |-> c.email, photo |-> ""])

\* A creation that read its form while the email was unused never ends in
\* an error; once rendered, its row is stored and its page shows 'success'.
Creates(r) ==
    /\ pc[r] \notin {"a_integrity", "a_exception"}
    /\ pc[r] \in {"a_list", "a_render", "done"} => lv[r].outcome = "success"
    /\ pc[r] = "done" =>
          /\ \E i \in 1..Len(users) :
                /\ users[i].email = lv[r].email
                /\ users[i].name = lv[r].name
          /\ Shows(r, SuccessMessage(lv[r].email))

\* A login that reached the database with credentials of a committed
\* creation is answered 200 with that user's profile.
LogsIn(r) ==
    (pc[r] = "done" /\ resp[r].status # 500) =>
        /\ resp[r].status = 200
        /\ resp[r].success
        /\ resp[r].user = Profile(lv[r].known[1])

\* C1 as stated: for every (name, email, password) whose email is not yet
\* stored, an admin POST with the correct secret creates the user, and any
\* later login with that email and password is answered 200 with the user's
\* name and email.
C1_AsStated ==
    \A r \in AllSlots :
        /\ (IsAdminPost(r) /\ lv[r].fresh) => Creates(r)
        /\ (IsLogin(r) /\ lv[r].known # None) => LogsIn(r)

\* C1 as amended: the same for every name and email that fit their columns
\* (creation), and for every non-empty email and password (login); a login
\* with an empty email or password is answered 400 instead.
C1_CreateThenLogin ==
    \A r \in AllSlots :
        /\ (IsAdminPost(r) /\ lv[r].fresh
              /\ Len(lv[r].name) <= NameMax /\ Len(lv[r].email) <= EmailMax)
           => Creates(r)
        /\ (IsLogin(r) /\ lv[r].known # None)
           => IF lv[r].known[1].email # "" /\ lv[r].known[1].password # ""
              THEN LogsIn(r)
              ELSE pc[r] = "done" /\ resp[r].status = 400

C1_Witness ==
    \E r \in AllSlots :
        /\ IsLogin(r) /\ pc[r] = "done" /\ lv[r].known # None
        /\ resp[r].status = 200
        /\ resp[r].user = Profile(lv[r].known[1])

\* The steps of a creation whose email is stored.
C2_DuplicateStep ==
    \A r \in AllSlots :
        /\ (pc[r] = "a_insert" /\ Acts(r) /\ lv[r].email \in StoredEmails
              /\ Len(lv[r].email) <= EmailMax)
           => (pc'[r] = "a_integrity" /\ users' = users /\ txrow' = txrow)
        /\ (pc[r] = "a_integrity" /\ Acts(r))
           => /\ users' = users
              /\ txrow'[r] = None
              /\ created' = created
              /\ lv'[r].outcome = "duplicate"
              /\ flashes'[rq[r].session] =
                    Append(flashes[rq[r].session], ExistsMessage(lv[r].email))

\* What a duplicate leaves behind, and who can log in.
C2_DuplicateState ==
    /\ \A r \in AllSlots :
          /\ (IsAdminPost(r) /\ pc[r] = "done" /\ lv[r].outcome = "duplicate")
             => (lv[r].email \in StoredEmails /\ Shows(r, ExistsMessage(lv[r].email)))
          /\ (IsLogin(r) /\ pc[r] = "done" /\ resp[r].status = 200)
             => lv[r].known # None
    /\ \A c, d \in created : c.email = d.email => c = d
    /\ \A i \in 1..Len(users) :
          \E c \in created :
             /\ c.email = users[i].email
             /\ c.name = users[i].name
             /\ CheckPasswordHash(users[i].password_hash, c.password)

C3_WrongSecretStep ==
    \A r \in AllSlots :
        (pc[r] = "a_auth" /\ Acts(r) /\ lv'[r].auth # Some(ADMIN_PASSWORD))
        => /\ pc'[r] = "done"
           /\ resp'[r] = Redirect
           /\ users' = users /\ seq' = seq /\ txrow' = txrow
           /\ lv'[r].stmts = 0
           /\ flashes'[rq[r].session] =
                 Append(flashes[rq[r].session], WrongSecretMessage)

\* A finished admin POST whose secret did not match.
C3_WrongSecretState ==
    \A r \in AllSlots :
        (IsAdminPost(r) /\ pc[r] = "done" /\ lv[r].auth # Some(ADMIN_PASSWORD))
        => /\ lv[r].stmts = 0
           /\ lv[r].outcome = "none"
           /\ resp[r].status \in {302, 500}
           /\ resp[r].status = 302 <=> lv[r].conn

\* C3: an admin POST whose submitted secret differs from the configured one
\* (or is absent) inserts no row whatever its other fields: the secret check
\* leaves the table, the sequence and every transaction as they were, flashes
\* 'error', answers with a redirect, and the request has run no SQL statement.
C3_WrongSecret == []C3_WrongSecretState /\ [][C3_WrongSecretStep]_vars

C3_Witness ==
    \E r \in AllSlots :
        /\ IsAdminPost(r) /\ pc[r] = "done" /\ lv[r].auth = Some("bad")
        /\ resp[r] = Redirect
        /\ Len(users) > 0
        /\ flashes[rq[r].session] # <<>>

\* A login that ran its query and was refused.
Refused(r) == IsLogin(r) /\ pc[r] = "done" /\ lv[r].stmts > 0 /\ ~resp[r].success

\* C4: with non-empty email and password, a login with a stored email and a
\* wrong password gets exactly the response (401, same body) of a login with
\* an email that is not stored.
C4_SameRefusal ==
    \A r1, r2 \in AllSlots :
        (Refused(r1) /\ Refused(r2) /\ lv[r1].found /\ ~lv[r2].found)
        => (resp[r1] = resp[r2] /\ resp[r1].status = 401)

C4_Witness ==
    \E r1, r2 \in AllSlots :
        /\ Refused(r1) /\ Refused(r2) /\ lv[r1].found /\ ~lv[r2].found
        /\ lv[r1].email \in StoredEmails

\* The body, or its email or its password, is missing or empty.
Incomplete(data) ==
    \/ data = None
    \/ data[1].email = None \/ data[1].email = Some("")
    \/ data[1].password = None \/ data[1].password = Some("")

\* C5: a login whose body, email or password is missing or empty is answered
\* 400 without calling get_db_connection and without running a query, also
\* when no connection could be had.
C5_ValidatesFirst ==
    \A r \in AllSlots :
        (IsLogin(r) /\ pc[r] # "l_validate" /\ Incomplete(lv[r].data))
        => /\ pc[r] = "done"
           /\ resp[r].status = 400
           /\ lv[r].connects = 0 /\ lv[r].stmts = 0 /\ ~lv[r].conn

C5_Witness ==
    \E r \in AllSlots :
        /\ IsLogin(r) /\ pc[r] = "done" /\ resp[r].status = 400
        /\ lv[r].data # None /\ lv[r].data[1].email = Some("ana@x.com")
        /\ lv[r].data[1].password = None
        /\ conns = MaxConnections

\* C6: every request that acquired a connection has released it when it
\* returns its response, and with no request in progress no connection is open.
C6_Released ==
    /\ \A r \in AllSlots : pc[r] = "done" => ~lv[r].conn
    /\ (\A r \in AllSlots : pc[r] \in {"idle", "done"}) => conns = 0

\* How a step may change the pending messages.
C7_FlashStep ==
    /\ \A r \in AllSlots :
          (pc[r] = "a_render" /\ Acts(r))
          => /\ resp'[r].messages = flashes[rq[r].session]
             /\ flashes'[rq[r].session] = <<>>
    /\ \A s \in AllSessions :
          flashes'[s] # flashes[s]
          => \E r \in AllSlots :
                /\ Acts(r) /\ rq[r].session = s
                /\ \/ pc[r] = "a_render"
                   \/ /\ Len(flashes'[s]) = Len(flashes[s]) + 1
                      /\ SubSeq(flashes'[s], 1, Len(flashes[s])) = flashes[s]

\* The page of a finished creation.
C7_FlashState ==
    \A r \in AllSlots :
        (IsAdminPost(r) /\ pc[r] = "done" /\ lv[r].outcome # "none")
        => \E i \in 1..Len(resp[r].messages) :
              /\ resp[r].messages[i].email = lv[r].email
              /\ resp[r].messages[i].category = "success"
                    <=> lv[r].outcome = "success"

Rows ==
    {users[i] : i \in 1..Len(users)}
    \cup {txrow[r][1] : r \in {o \in AllSlots : txrow[o] # None}}

\* C8: no two stored users share an email, every stored user has a non-empty
\* password_hash, and no id is given twice: ids are distinct and below the
\* sequence's next value.
C8_TableInvariant ==
    /\ \A i, j \in 1..Len(users) :
          i # j => (users[i].email # users[j].email /\ users[i].id # users[j].id)
    /\ \A i \in 1..Len(users) : users[i].password_hash # <<>>
    /\ \A u \in Rows : u.id < seq
    /\ \A u, v \in Rows : u.id = v.id => u = v

C8_Witness ==
    /\ Len(users) = 2
    /\ \E i \in 1..2 : users[i].password_hash = GeneratePasswordHash("", "s1")

\* What a step may do to the table.
C9_FrameStep ==
    /\ Len(users) <= Len(users') /\ Len(users') <= Len(users) + 1
    /\ \A i \in 1..Len(users) : users'[i] = users[i]
    /\ \A r \in AllSlots :
          (Acts(r) /\ pc[r] \notin {"idle", "done"} /\ ~IsAdminPost(r))
          => users' = users

\* C9: stored users are immutable: every step keeps every stored row as it
\* is and adds at most one; the steps of a login or of an admin GET leave the
\* table unchanged.
C9_Immutable == [][C9_FrameStep]_vars

C9_Witness ==
    /\ Len(users) = 2
    /\ \E r \in AllSlots : IsLogin(r) /\ pc[r] = "done" /\ resp[r].status = 200

\* Both slots run an admin POST for the same email, which was unused when
\* each of them read its form, and both are past the INSERT's outcome.
Raced(r1, r2) ==
    /\ r1 # r2
    /\ IsAdminPost(r1) /\ IsAdminPost(r2)
    /\ lv[r1].fresh /\ lv[r2].fresh
    /\ lv[r1].email = lv[r2].email
    /\ Len(lv[r1].email) <= EmailMax
    /\ pc[r1] \in {"a_list", "a_render", "done"}
    /\ pc[r2] \in {"a_list", "a_render", "done"}

=============================================================================
